---- MODULE Spec2Model ----
(***************************************************************************)
(* SYLON 3.0 backend: the GPS simulation (modules/gps/simulation.ts), the  *)
(* geo helpers it uses (shared/utils/geo.ts), the dispatch-status resolver *)
(* and the position broadcast of the main server.                          *)
(*                                                                         *)
(* Numbers.  JavaScript numbers are modelled by integers:                  *)
(*   - a coordinate is counted in units of 0.000005 degree (200000 units   *)
(*     per degree), so every coordinate of the demo catalog and every      *)
(*     jitter amplitude of the simulation is a whole number of units;      *)
(*   - a distance is counted in units of 1/3600 km, so that                *)
(*     (speed / 3600) * deltaTime km is exactly speed * deltaTime units;   *)
(*   - a Date is its getTime() value in milliseconds;                      *)
(*   - Math.random() is drawn from Random, the two ends of [0, 1);         *)
(*   - NaN is one distinguished value, absorbing in arithmetic and false   *)
(*     in every comparison, as in IEEE 754.                                *)
(***************************************************************************)
EXTENDS Integers, Sequences, FiniteSets, TLC

VARIABLES
    allResources,      \* data/resources.ts: the fleet, a sequence of Resource records
    simulationStates,  \* simulation.ts:23: Map resourceId -> SimulationState
    positions,         \* the Map returned by the latest updateSimulation call
    ticks,             \* number of updateSimulation calls made so far
    initCalls,         \* number of initializeSimulation calls made so far
    initError,         \* whether an initializeSimulation call reported an error
    snapshot,          \* what the latest getAllPositions call since the latest tick returned
    reads,             \* number of getAllPositions calls since the latest tick
    clients,           \* part_008:581: the Set of sockets, in insertion order
    readyState,        \* ws.readyState of every socket that has connected
    faulty,            \* the sockets whose send() raises
    inbox,             \* the latest message every socket has been sent
    alive,             \* whether the server process is running
    allJobs,           \* data/jobs.ts:251: the array of Job records
    running,           \* whether an updateSimulation call is in progress
    pending,           \* the resources that call has still to update, in Map order
    phase,             \* where that call is in the loop body: "move" or "stamp"
    tickNow,           \* simulation.ts:113: the now of that call
    before,            \* the Map as it was when the latest call began
    observed,          \* what readers got from getResourcePosition, and after which update
    shuttingDown,      \* whether gracefulShutdown has run
    exitDeadline,      \* the time at which its forced-exit timeout fires
    response,          \* the latest response a request handler has sent
    pc,                \* where the server is: "load", "serving" or "crashed"
    online,            \* field app: navigator.onLine
    gpsBuffer,         \* field app, sync.ts:187: the readings not yet stored
    gpsQueue,          \* field app: the gpsQueue store, reading id -> synced flag
    syncRuns,          \* field app: where every syncAll run is, and its batch
    accepted           \* reading id -> number of batches with it the server accepted

simVars == <<allResources, simulationStates, positions, ticks, initCalls, initError>>

readVars == <<snapshot, reads>>

serverVars == <<clients, readyState, faulty, inbox, alive>>

jobVars == <<allJobs>>

stepVars == <<running, pending, phase, tickNow, before, observed>>

hostVars == <<shuttingDown, exitDeadline, response, pc>>

syncVars == <<online, gpsBuffer, gpsQueue, syncRuns, accepted>>

vars == <<simVars, readVars, serverVars, jobVars, stepVars, hostVars, syncVars>>

\* what the simulation module's functions leave alone
restVars == <<readVars, serverVars, jobVars, stepVars, hostVars, syncVars>>

----------------------------------------------------------------------------
(* Bounds of the model *)

\* at most MaxTicks calls of updateSimulation in a behaviour
MaxTicks == 3

\* the wall clock takes the values 0, 120 s, ..., MaxClock * 120 s after the
\* server's start
MaxClock == 2

ClockValues == {k * 120000 : k \in 0..MaxClock}

\* Math.random(): the two ends of [0, 1) (1 stands for the values just below 1)
Random == {0, 1}

\* the value standing for IEEE NaN
NaN == -999999999

Undefined == [undefined |-> TRUE]

\* an empty Map
EmptyMap == [id \in {} |-> 0]

----------------------------------------------------------------------------
(* shared/utils/geo.ts *)

RECURSIVE SqrtSearch(_, _, _)
SqrtSearch(n, lo, hi) ==
    IF lo >= hi THEN lo
    ELSE LET mid == (lo + hi + 1) \div 2
         IN  IF mid * mid <= n THEN SqrtSearch(n, mid, hi)
                               ELSE SqrtSearch(n, lo, mid - 1)

\* Math.sqrt on a non-negative integer, rounded down
Sqrt(n) == SqrtSearch(n, 0, 46340)

IsNaNCoords(c) == c.latitude = NaN \/ c.longitude = NaN

NaNCoords == [latitude |-> NaN, longitude |-> NaN]

\* Earth's radius: 6371 km * pi / 180 per degree, that is 2 distance units
\* (1/3600 km) per coordinate unit (0.000005 degree)
R == 2

\* calculateDistance: the great-circle distance, on the plane of the model's
\* grid; 0 exactly when from = to
calculateDistance(from, to) ==
    IF IsNaNCoords(from) \/ IsNaNCoords(to) THEN NaN
    ELSE LET dLat == to.latitude - from.latitude
             dLon == to.longitude - from.longitude
         IN  R * Sqrt(dLat * dLat + dLon * dLon)

\* calculateBearing: the initial compass bearing, to the nearest of the eight
\* compass points; atan2(0, 0) = 0 when from = to
calculateBearing(from, to) ==
    IF IsNaNCoords(from) \/ IsNaNCoords(to) THEN NaN
    ELSE LET dLat == to.latitude - from.latitude
             dLon == to.longitude - from.longitude
         IN  CASE dLon = 0 /\ dLat >= 0 -> 0
               [] dLon > 0 /\ dLat > 0  -> 45
               [] dLon > 0 /\ dLat = 0  -> 90
               [] dLon > 0 /\ dLat < 0  -> 135
               [] dLon = 0 /\ dLat < 0  -> 180
               [] dLon < 0 /\ dLat < 0  -> 225
               [] dLon < 0 /\ dLat = 0  -> 270
               [] dLon < 0 /\ dLat > 0  -> 315

\* a / b rounded to the nearest integer (b > 0)
RoundDiv(a, b) == (a + b \div 2) \div b

\* a fraction num / den, as interpolatePosition receives it:
\* x / NaN = NaN; x / 0 = -Infinity or +Infinity (x # 0)
Fraction(num, den) == [num |-> num, den |-> den]

\* from + (to - from) * fraction, one coordinate.  With den = 0 the fraction
\* is infinite: 0 * Infinity = NaN (the only case with den = 0, since the
\* distance is 0 only when to = from).
Lerp(from, to, fraction) ==
    IF from = NaN \/ to = NaN \/ fraction.den = NaN \/ fraction.den = 0 THEN NaN
    ELSE from + RoundDiv((to - from) * fraction.num, fraction.den)

\* an interpolation with the difference taken the wrong way round
interpolatePosition_Backwards(from, to, fraction) ==
    [latitude  |-> Lerp(from.latitude, 2 * from.latitude - to.latitude, fraction),
     longitude |-> Lerp(from.longitude, 2 * from.longitude - to.longitude, fraction)]

interpolatePosition(from, to, fraction) ==
    [latitude  |-> Lerp(from.latitude, to.latitude, fraction),
     longitude |-> Lerp(from.longitude, to.longitude, fraction)]

----------------------------------------------------------------------------
(* shared constants: the demo sites, plow routes and project areas *)

DEMO_GARAGE == [latitude |-> 12480240, longitude |-> 3457120]

DEMO_QUARRY_NORTH == [latitude |-> 12490460, longitude |-> 3468420]

DEMO_QUARRY_SOUTH == [latitude |-> 12466900, longitude |-> 3455780]

PLOW_ROUTES ==
    << [id |-> "route-plow-1",
        waypoints |-> << [lat |-> 12478160, lng |-> 3461380], [lat |-> 12482000, lng |-> 3464000],
                         [lat |-> 12486000, lng |-> 3468000], [lat |-> 12490000, lng |-> 3470000] >>],
       [id |-> "route-plow-2",
        waypoints |-> << [lat |-> 12478160, lng |-> 3461380], [lat |-> 12477600, lng |-> 3458000],
                         [lat |-> 12477000, lng |-> 3462000], [lat |-> 12478400, lng |-> 3464000] >>],
       [id |-> "route-plow-3",
        waypoints |-> << [lat |-> 12480240, lng |-> 3457120], [lat |-> 12481000, lng |-> 3454000],
                         [lat |-> 12482000, lng |-> 3452000], [lat |-> 12481600, lng |-> 3450000] >>],
       [id |-> "route-plow-4",
        waypoints |-> << [lat |-> 12474000, lng |-> 3460000], [lat |-> 12473000, lng |-> 3458000],
                         [lat |-> 12472000, lng |-> 3462000], [lat |-> 12471000, lng |-> 3460000] >>] >>

PROJECT_AREAS ==
    << [id |-> "project-1", coordinates |-> [latitude |-> 12479000, longitude |-> 3456000]],
       [id |-> "project-2", coordinates |-> [latitude |-> 12497000, longitude |-> 3464000]],
       [id |-> "project-3", coordinates |-> [latitude |-> 12482000, longitude |-> 3450000]] >>

----------------------------------------------------------------------------
(* JavaScript helpers *)

\* a % n of JavaScript: the sign of the dividend; NaN % n = NaN
JsMod(a, n) ==
    IF a = NaN THEN NaN
    ELSE IF a >= 0 THEN a % n ELSE -((-a) % n)

\* whether arr[i] is defined, for a 0-based index i (arr[NaN] and arr[-1] are not)
HasIndex(arr, i) == i # NaN /\ i >= 0 /\ i < Len(arr)

\* arr[i] for a 0-based index i at which arr is defined
At(arr, i) == arr[i + 1]

\* id.split('-') for the resource ids of the model
Split(id) ==
    CASE id = "loader-01"      -> <<"loader", "01">>
      [] id = "loader-03"      -> <<"loader", "03">>
      [] id = "excavator-01"   -> <<"excavator", "01">>
      [] id = "plow-truck-01"  -> <<"plow", "truck", "01">>
      [] id = "haul-truck-01"  -> <<"haul", "truck", "01">>
      [] id = "haul-truck-02"  -> <<"haul", "truck", "02">>
      [] id = "plow-truck-04"  -> <<"plow", "truck", "04">>
      [] id = "plow-truck-05"  -> <<"plow", "truck", "05">>
      [] id = "haul-truck-04"  -> <<"haul", "truck", "04">>
      [] id = "tanker-01"      -> <<"tanker", "01">>
      [] id = "plow-truck"     -> <<"plow", "truck">>
      [] id = "plow-truck-00"  -> <<"plow", "truck", "00">>
      [] id = "plow-truck-xx"  -> <<"plow", "truck", "xx">>
      [] id = "haul-truck-00"  -> <<"haul", "truck", "00">>
      [] id = "excavator-00"   -> <<"excavator", "00">>
      [] id = "loader-xx"      -> <<"loader", "xx">>

\* parseInt for the id segments of the model
parseInt(s) ==
    CASE s = "00" -> 0
      [] s = "01" -> 1
      [] s = "02" -> 2
      [] s = "03" -> 3
      [] s = "04" -> 4
      [] s = "05" -> 5
      [] s = "1"  -> 1
      [] OTHER    -> NaN

\* parseInt(id.split('-')[i] || '1'): a missing or empty segment reads as '1'
IdNumber(id, i) ==
    LET parts == Split(id)
    IN  parseInt(IF HasIndex(parts, i) /\ At(parts, i) # "" THEN At(parts, i) ELSE "1")

\* an index that is taken as 0-based already
Minus1_Kept(x) == x

\* x - 1 of JavaScript
Minus1(x) == IF x = NaN THEN NaN ELSE x - 1

----------------------------------------------------------------------------
(* modules/gps/simulation.ts *)

\* (Math.random() - 0.5) * amount, for a draw r and an even amount
Centered(r, amount) == ((2 * r - 1) * amount) \div 2

\* the number of Math.random() calls createInitialState makes for a resource type
InitDraws(type) ==
    CASE type = "plow_truck"   -> 1
      [] type = "haul_truck"   -> 1
      [] type = "wheel_loader" -> 7
      [] type = "excavator"    -> 5
      [] OTHER                 -> 0

\* the waypoints, status and speed createInitialState assigns by resource type;
\* r is the sequence of Math.random() draws, in the order the code makes them
\* (0.002 degree is 400 coordinate units, 0.001 degree is 200)
AssignRoute(resource, r) ==
    CASE resource.type = "plow_truck" ->
            LET routeIndex == Minus1(IdNumber(resource.id, 2))
                i          == JsMod(routeIndex, Len(PLOW_ROUTES))
            IN  [waypoints |-> IF HasIndex(PLOW_ROUTES, i)
                               THEN [k \in 1..Len(At(PLOW_ROUTES, i).waypoints) |->
                                        [latitude  |-> At(PLOW_ROUTES, i).waypoints[k].lat,
                                         longitude |-> At(PLOW_ROUTES, i).waypoints[k].lng]]
                               ELSE <<>>,
                 status    |-> "moving",
                 speed     |-> 30 + r[1] * 20]
      [] resource.type = "haul_truck" ->
            LET projectIndex == Minus1(IdNumber(resource.id, 2))
                i            == JsMod(projectIndex, Len(PROJECT_AREAS))
                quarry       == IF JsMod(projectIndex, 2) = 0 THEN DEMO_QUARRY_NORTH
                                                               ELSE DEMO_QUARRY_SOUTH
            IN  [waypoints |-> << DEMO_GARAGE,
                                  quarry,
                                  IF HasIndex(PROJECT_AREAS, i)
                                  THEN At(PROJECT_AREAS, i).coordinates ELSE DEMO_GARAGE,
                                  DEMO_GARAGE >>,
                 status    |-> "moving",
                 speed     |-> 40 + r[1] * 30]
      [] resource.type = "wheel_loader" ->
            LET loaderIndex == IdNumber(resource.id, 1)
                quarry      == IF loaderIndex # NaN /\ loaderIndex <= 2 THEN DEMO_QUARRY_NORTH
                                                                         ELSE DEMO_QUARRY_SOUTH
            IN  [waypoints |-> [k \in 1..3 |->
                                  [latitude  |-> quarry.latitude + Centered(r[2 * k - 1], 400),
                                   longitude |-> quarry.longitude + Centered(r[2 * k], 400)]],
                 status    |-> "working",
                 speed     |-> 5 + r[7] * 10]
      [] resource.type = "excavator" ->
            LET excIndex == Minus1(IdNumber(resource.id, 1))
                i        == JsMod(excIndex, Len(PROJECT_AREAS))
                center   == IF HasIndex(PROJECT_AREAS, i)
                            THEN At(PROJECT_AREAS, i).coordinates ELSE DEMO_GARAGE
            IN  [waypoints |-> [k \in 1..2 |->
                                  [latitude  |-> center.latitude + Centered(r[2 * k - 1], 200),
                                   longitude |-> center.longitude + Centered(r[2 * k], 200)]],
                 status    |-> "working",
                 speed     |-> 2 + r[5] * 5]
      [] OTHER ->
            [waypoints |-> <<DEMO_GARAGE>>, status |-> "idle", speed |-> 0]

\* createInitialState(resource), made at time now with the draws r
createInitialState(resource, r, now) ==
    LET route           == AssignRoute(resource, r)
        waypoints       == route.waypoints
        currentPosition == IF HasIndex(waypoints, 0) THEN At(waypoints, 0) ELSE DEMO_GARAGE
        targetPosition  == IF HasIndex(waypoints, 1) THEN At(waypoints, 1)
                           ELSE IF HasIndex(waypoints, 0) THEN At(waypoints, 0)
                           ELSE DEMO_GARAGE
    IN  [resourceId      |-> resource.id,
         currentPosition |-> currentPosition,
         targetPosition  |-> targetPosition,
         speed           |-> route.speed,
         heading         |-> calculateBearing(currentPosition, targetPosition),
         waypoints       |-> waypoints,
         waypointIndex   |-> 0,
         status          |-> route.status,
         lastUpdate      |-> now]

\* the ids of the fleet, in the order of allResources
ResourceIds == {allResources[k].id : k \in 1..Len(allResources)}

ResourceOf(id) == CHOOSE res \in {allResources[k] : k \in 1..Len(allResources)} : res.id = id

\* initializeSimulation(), called at time now: one fresh state per resource
\* of allResources, set into the Map under the resource's id
InitializeSimulation(now) ==
    /\ \E draws \in [ResourceIds -> [1..7 -> Random]] :
          /\ \A id \in ResourceIds : \A k \in 1..7 :
                k > InitDraws(ResourceOf(id).type) => draws[id][k] = 0
          /\ simulationStates' =
                [id \in DOMAIN simulationStates \cup ResourceIds |->
                    IF id \in ResourceIds
                    THEN createInitialState(ResourceOf(id), draws[id], now)
                    ELSE simulationStates[id]]
    /\ initCalls' = initCalls + 1
    /\ UNCHANGED <<allResources, positions, ticks, initError>>

\* addJitter(coords, amount), with the draws rLat and rLon
addJitter(coords, amount, rLat, rLon) ==
    [latitude  |-> coords.latitude + Centered(rLat, amount),
     longitude |-> coords.longitude + Centered(rLon, amount)]

\* deltaTime of updateSimulation, in seconds
DeltaTime(state, now) == (now - state.lastUpdate) \div 1000

\* distanceToMove >= distanceToTarget (false when the distance is NaN)
Reached(state, now) ==
    LET distanceToTarget == calculateDistance(state.currentPosition, state.targetPosition)
        distanceToMove   == state.speed * DeltaTime(state, now)
    IN  distanceToTarget # NaN /\ distanceToMove >= distanceToTarget

\* Math.max(5, Math.min(80, speed))
ClampSpeed(speed) ==
    LET capped == IF speed < 80 THEN speed ELSE 80
    IN  IF capped > 5 THEN capped ELSE 5

\* a movement that spends what is left of the travelable distance on the
\* next leg: a resource that can reach the waypoint after its target goes there
MoveState_Lapping(state, now, d) ==
    LET Arrive(st) ==
            LET next  == st.waypointIndex + 1
                index == IF next >= Len(st.waypoints) THEN 0 ELSE next
                cur   == st.targetPosition
                tgt   == IF HasIndex(st.waypoints, index) THEN At(st.waypoints, index)
                                                          ELSE cur
            IN  [st EXCEPT !.waypointIndex   = index,
                           !.currentPosition = cur,
                           !.targetPosition  = tgt,
                           !.heading         = calculateBearing(cur, tgt)]
        distanceToTarget == calculateDistance(state.currentPosition, state.targetPosition)
        distanceToMove   == state.speed * DeltaTime(state, now)
    IN  IF state.status = "idle"
        THEN [state EXCEPT !.currentPosition = addJitter(state.currentPosition, 2, d.lat, d.lon)]
        ELSE IF Reached(state, now)
        THEN LET first == Arrive(state)
                 left  == distanceToMove - distanceToTarget
             IN  IF left >= calculateDistance(first.currentPosition, first.targetPosition)
                 THEN Arrive(first) ELSE first
        ELSE [state EXCEPT !.currentPosition =
                               interpolatePosition(state.currentPosition, state.targetPosition,
                                                   Fraction(distanceToMove, distanceToTarget)),
                           !.speed = ClampSpeed(state.speed + Centered(d.speed, 2))]

\* updateSimulation, lines 117-146: the movement of one resource; d holds the
\* Math.random() draws (0.00001 degree is 2 coordinate units)
MoveState(state, now, d) ==
    IF state.status = "idle"
    THEN [state EXCEPT !.currentPosition = addJitter(state.currentPosition, 2, d.lat, d.lon)]
    ELSE IF Reached(state, now)
    THEN LET next  == state.waypointIndex + 1
             index == IF next >= Len(state.waypoints) THEN 0 ELSE next
             cur   == state.targetPosition
             tgt   == IF HasIndex(state.waypoints, index) THEN At(state.waypoints, index)
                                                          ELSE cur
         IN  [state EXCEPT !.waypointIndex   = index,
                           !.currentPosition = cur,
                           !.targetPosition  = tgt,
                           !.heading         = calculateBearing(cur, tgt)]
    ELSE LET distanceToTarget == calculateDistance(state.currentPosition, state.targetPosition)
             distanceToMove   == state.speed * DeltaTime(state, now)
             fraction         == Fraction(distanceToMove, distanceToTarget)
         IN  [state EXCEPT !.currentPosition =
                               interpolatePosition(state.currentPosition,
                                                   state.targetPosition, fraction),
                           !.speed = ClampSpeed(state.speed + Centered(d.speed, 2))]

\* a stamp that skips the resources that stand still
StampState_Moving(state, now) ==
    IF state.status = "idle" THEN state ELSE [state EXCEPT !.lastUpdate = now]

\* updateSimulation, line 148
StampState(state, now) == [state EXCEPT !.lastUpdate = now]

\* a sample whose speed is the clamped speed of the state, idle or not
Sample_Clamped(state, now, d) ==
    [latitude  |-> state.currentPosition.latitude,
     longitude |-> state.currentPosition.longitude,
     timestamp |-> now,
     speed     |-> ClampSpeed(state.speed),
     heading   |-> state.heading,
     accuracy  |-> 3 + d.acc * 5]

\* updateSimulation, lines 150-157: the GeoPosition emitted for one resource
Sample(state, now, d) ==
    [latitude  |-> state.currentPosition.latitude,
     longitude |-> state.currentPosition.longitude,
     timestamp |-> now,
     speed     |-> IF state.status = "idle" THEN 0 ELSE state.speed,
     heading   |-> state.heading,
     accuracy  |-> 3 + d.acc * 5]

\* the Math.random() draws one resource's update makes: the jitter of an idle
\* resource, the speed variation of a resource under way, and the accuracy
DrawsOf(state, now) ==
    IF state.status = "idle"
    THEN [speed : {0}, lat : Random, lon : Random, acc : Random]
    ELSE IF Reached(state, now)
    THEN [speed : {0}, lat : {0}, lon : {0}, acc : Random]
    ELSE [speed : Random, lat : {0}, lon : {0}, acc : Random]

\* every assignment of draws to the resources of the Map
RECURSIVE DrawsFor(_, _)
DrawsFor(ids, now) ==
    IF ids = {} THEN {EmptyMap}
    ELSE LET id == CHOOSE x \in ids : TRUE
         IN  {(id :> d) @@ rest : d \in DrawsOf(simulationStates[id], now),
                                  rest \in DrawsFor(ids \ {id}, now)}

\* an update that turns a resource that reaches its target to returning
UpdateSimulation_Returning(now) ==
    /\ ticks < MaxTicks
    /\ \E draws \in DrawsFor(DOMAIN simulationStates, now) :
          /\ simulationStates' =
                [id \in DOMAIN simulationStates |->
                    LET state == simulationStates[id]
                        moved == StampState(MoveState(state, now, draws[id]), now)
                    IN  IF state.status # "idle" /\ Reached(state, now)
                        THEN [moved EXCEPT !.status = "returning"]
                        ELSE moved]
          /\ positions' =
                [id \in DOMAIN simulationStates |->
                    Sample(simulationStates'[id], now, draws[id])]
    /\ ticks' = ticks + 1
    /\ UNCHANGED <<allResources, initCalls, initError>>

\* updateSimulation(), called at time now: every state of the Map moved and
\* stamped with one and the same now, and the Map of the samples returned
UpdateSimulation(now) ==
    /\ ticks < MaxTicks
    /\ \E draws \in DrawsFor(DOMAIN simulationStates, now) :
          /\ simulationStates' =
                [id \in DOMAIN simulationStates |->
                    StampState(MoveState(simulationStates[id], now, draws[id]), now)]
          /\ positions' =
                [id \in DOMAIN simulationStates |->
                    Sample(simulationStates'[id], now, draws[id])]
    /\ ticks' = ticks + 1
    /\ UNCHANGED <<allResources, initCalls, initError>>

\* the GeoPosition getResourcePosition and getAllPositions build from a state
GeoPositionOf(state) ==
    [latitude  |-> state.currentPosition.latitude,
     longitude |-> state.currentPosition.longitude,
     timestamp |-> state.lastUpdate,
     speed     |-> IF state.status = "idle" THEN 0 ELSE state.speed,
     heading   |-> state.heading,
     accuracy  |-> 5]

\* a lookup that answers for an id it does not know with a sample at the depot
getResourcePosition_Default(resourceId) ==
    IF resourceId \notin DOMAIN simulationStates
    THEN [latitude  |-> DEMO_GARAGE.latitude,
          longitude |-> DEMO_GARAGE.longitude,
          timestamp |-> 0,
          speed     |-> 0,
          heading   |-> 0,
          accuracy  |-> 5]
    ELSE GeoPositionOf(simulationStates[resourceId])

\* getResourcePosition(resourceId)
getResourcePosition(resourceId) ==
    IF resourceId \notin DOMAIN simulationStates THEN Undefined
    ELSE GeoPositionOf(simulationStates[resourceId])

\* getAllPositions()
getAllPositions ==
    [resourceId \in DOMAIN simulationStates |-> GeoPositionOf(simulationStates[resourceId])]

----------------------------------------------------------------------------
(* The simulation as the server drives it: initializeSimulation once at    *)
(* startup (the origin of the model's clock), then updateSimulation on     *)
(* every firing of the timer.                                              *)

\* the resources of the model: one of every type createInitialState knows,
\* and a tanker, a type it does not
Loader01 == [id |-> "loader-01", type |-> "wheel_loader"]

Excavator01 == [id |-> "excavator-01", type |-> "excavator"]

PlowTruck01 == [id |-> "plow-truck-01", type |-> "plow_truck"]

HaulTruck01 == [id |-> "haul-truck-01", type |-> "haul_truck"]

Tanker01 == [id |-> "tanker-01", type |-> "tanker"]

Fleets == { <<Loader01>>, <<Excavator01>>, <<Tanker01>>, <<PlowTruck01, HaulTruck01>> }

InitSim ==
    /\ simulationStates = EmptyMap
    /\ positions = EmptyMap
    /\ ticks = 0
    /\ initCalls = 0
    /\ initError = FALSE

InitReads ==
    /\ snapshot = EmptyMap
    /\ reads = 0

InitServer ==
    /\ clients = <<>>
    /\ readyState = EmptyMap
    /\ faulty = {}
    /\ inbox = EmptyMap
    /\ alive = TRUE

\* the two of the sixteen demo jobs of data/jobs.ts that share a resource,
\* loader-02: job-exc-003 and job-load-004
DemoJobs ==
    << [id |-> "job-exc-003", status |-> "scheduled",
        assignedResources |-> <<"excavator-03", "loader-02">>],
       [id |-> "job-load-004", status |-> "scheduled",
        assignedResources |-> <<"loader-02">>] >>

InitJobs == allJobs = DemoJobs

InitSteps ==
    /\ running = FALSE
    /\ pending = <<>>
    /\ phase = "move"
    /\ tickNow = 0
    /\ before = EmptyMap
    /\ observed = EmptyMap

InitHost ==
    /\ shuttingDown = FALSE
    /\ exitDeadline = 0
    /\ response = [route |-> "none"]
    /\ pc = "serving"

\* the field app at its start: online, nothing buffered, stored or under way
InitSync ==
    /\ online = TRUE
    /\ gpsBuffer = <<>>
    /\ gpsQueue = EmptyMap
    /\ syncRuns = EmptyMap
    /\ accepted = EmptyMap

InitRest == InitReads /\ InitServer /\ InitJobs /\ InitSteps /\ InitHost /\ InitSync

Init ==
    /\ allResources \in Fleets
    /\ InitSim
    /\ InitRest

Startup ==
    /\ initCalls = 0
    /\ InitializeSimulation(0)
    /\ UNCHANGED restVars

Tick ==
    /\ initCalls > 0
    /\ \E now \in ClockValues : UpdateSimulation(now)
    /\ UNCHANGED restVars

Next == Startup \/ Tick

Spec == Init /\ [][Next]_vars

----------------------------------------------------------------------------
(* Claims about the kinematic state, checked under Spec *)

\* the updateSimulation call of a step, if the step is one
IsTick == ticks' = ticks + 1

\* C1: in every state reached by initializeSimulation and any number of
\* updateSimulation calls, each resource's targetPosition is
\* waypoints[waypointIndex].
C1_TargetIsIndexedWaypoint ==
    \A id \in DOMAIN simulationStates :
        LET state == simulationStates[id]
        IN  /\ HasIndex(state.waypoints, state.waypointIndex)
            /\ state.targetPosition = At(state.waypoints, state.waypointIndex)

\* C2: a resource under way on a two-waypoint loop [Depot, Quarry]: the tick
\* on which it arrives at Quarry leaves waypointIndex designating Depot and
\* makes Depot the target.
C2_ArrivalTurnsBack ==
    [][\A id \in DOMAIN simulationStates :
          LET state  == simulationStates[id]
              depot  == state.waypoints[1]
              quarry == state.waypoints[2]
          IN  ( /\ IsTick
                /\ state.status # "idle"
                /\ Len(state.waypoints) = 2
                /\ depot # quarry
                /\ state.currentPosition # quarry
                /\ simulationStates'[id].currentPosition = quarry )
              => ( /\ simulationStates'[id].waypointIndex = 0
                   /\ simulationStates'[id].targetPosition = depot )]_vars

\* the waypoint after waypoints[k] in the loop (k is 1-based)
NextWaypoint(state, k) == state.waypoints[(k % Len(state.waypoints)) + 1]

\* C3: a resource under way on a loop [A, B, C] of three different
\* waypoints: a tick whose dt is large enough to reach the target and the
\* next waypoint of the loop moves the resource from the waypoint it is at
\* to the next one, so that the positions run A, B, C, A, ... in order.
C3_VisitsWaypointsInOrder ==
    [][\A id \in DOMAIN simulationStates :
          LET state == simulationStates[id]
              now   == simulationStates'[id].lastUpdate
          IN  \A k \in 1..3 :
                ( /\ IsTick
                  /\ state.status # "idle"
                  /\ Len(state.waypoints) = 3
                  /\ Cardinality({state.waypoints[i] : i \in 1..3}) = 3
                  /\ state.currentPosition = state.waypoints[k]
                  /\ Reached(state, now)
                  /\ state.speed * DeltaTime(state, now)
                        >= calculateDistance(state.currentPosition, NextWaypoint(state, k)) )
                => simulationStates'[id].currentPosition = NextWaypoint(state, k)]_vars

\* C4: after initialization and any number of ticks, every resource that is
\* not idle has a speed within [5, 80] km/h.
C4_SpeedWithinClamp ==
    \A id \in DOMAIN simulationStates :
        LET state == simulationStates[id]
        IN  state.status # "idle" => (state.speed >= 5 /\ state.speed <= 80)

\* C5: a tick with now <= lastUpdate (dt <= 0) leaves the resource's
\* currentPosition, targetPosition and waypointIndex unchanged and still
\* emits a sample for it.
C5_NoMovementWithoutTime ==
    [][\A id \in DOMAIN simulationStates :
          LET state == simulationStates[id]
              after == simulationStates'[id]
          IN  (IsTick /\ DeltaTime(state, after.lastUpdate) <= 0)
              => ( /\ after.currentPosition = state.currentPosition
                   /\ after.targetPosition = state.targetPosition
                   /\ after.waypointIndex = state.waypointIndex
                   /\ id \in DOMAIN positions' )]_vars

----------------------------------------------------------------------------
(* initializeSimulation called again on a live simulation *)

MaxInits == 2

InitReinit ==
    /\ allResources \in { <<Excavator01>>, <<Tanker01>>, <<PlowTruck01>> }
    /\ InitSim
    /\ InitRest

\* a caller of the exported initializeSimulation() after startup
Reinitialize ==
    /\ initCalls > 0
    /\ initCalls < MaxInits
    /\ \E now \in ClockValues : InitializeSimulation(now)
    /\ UNCHANGED restVars

NextReinit == Startup \/ Tick \/ Reinitialize

SpecReinit == InitReinit /\ [][NextReinit]_vars

\* C6: a call of initializeSimulation on a simulation that is already
\* initialized is reported as an error and leaves every SimulationState
\* unchanged.
C6_SecondInitRejected ==
    [][(initCalls >= 1 /\ initCalls' = initCalls + 1)
         => (initError' /\ simulationStates' = simulationStates)]_vars

----------------------------------------------------------------------------
(* The WebSocket server and the broadcast timer, part_008:575-646.  The
   specification starts with the interval timer armed and the listener up. *)

MaxClients == 2

Sockets == 1..MaxClients

RECURSIVE Remove(_, _)
\* Set.delete on the insertion-ordered Set
Remove(queue, ws) ==
    IF queue = <<>> THEN <<>>
    ELSE IF Head(queue) = ws THEN Tail(queue)
    ELSE <<Head(queue)>> \o Remove(Tail(queue), ws)

IsClient(ws) == \E i \in 1..Len(clients) : clients[i] = ws

\* wss.on('connection'): the socket joins the Set and is sent every position
Connect(ws) ==
    /\ alive
    /\ ~shuttingDown
    /\ initCalls > 0
    /\ ws \notin DOMAIN readyState
    /\ clients' = Append(clients, ws)
    /\ readyState' = readyState @@ (ws :> "OPEN")
    /\ inbox' = inbox @@ (ws :> [type |-> "INITIAL_POSITIONS", data |-> getAllPositions])
    /\ UNCHANGED <<simVars, readVars, hostVars, jobVars, stepVars, faulty, alive, syncVars>>

\* the peer starts the closing handshake; the 'close' event comes later
BeginClose(ws) ==
    /\ alive
    /\ ws \in DOMAIN readyState
    /\ readyState[ws] = "OPEN"
    /\ readyState' = [readyState EXCEPT ![ws] = "CLOSING"]
    /\ UNCHANGED <<simVars, readVars, hostVars, jobVars, stepVars, clients, faulty, inbox, alive, syncVars>>

\* ws.on('close')
OnClose(ws) ==
    /\ alive
    /\ ws \in DOMAIN readyState
    /\ readyState[ws] # "CLOSED"
    /\ readyState' = [readyState EXCEPT ![ws] = "CLOSED"]
    /\ clients' = Remove(clients, ws)
    /\ UNCHANGED <<simVars, readVars, hostVars, jobVars, stepVars, faulty, inbox, alive, syncVars>>

\* ws.on('error'): the socket leaves the Set, its 'close' event comes later
OnError(ws) ==
    /\ alive
    /\ IsClient(ws)
    /\ readyState[ws] # "CLOSED"
    /\ readyState' = [readyState EXCEPT ![ws] = "CLOSING"]
    /\ clients' = Remove(clients, ws)
    /\ UNCHANGED <<simVars, readVars, hostVars, jobVars, stepVars, faulty, inbox, alive, syncVars>>

\* the connection under an open socket breaks: its next send() raises
ConnectionBreaks(ws) ==
    /\ alive
    /\ IsClient(ws)
    /\ readyState[ws] = "OPEN"
    /\ ws \notin faulty
    /\ faulty' = faulty \cup {ws}
    /\ UNCHANGED <<simVars, readVars, hostVars, jobVars, stepVars, clients, readyState, inbox, alive, syncVars>>

RECURSIVE SendAll(_, _, _)
\* clients.forEach of the timer callback: send to the open sockets in
\* insertion order; a send() that raises ends the loop
SendAll(queue, box, message) ==
    IF queue = <<>> THEN [inbox |-> box, thrown |-> FALSE]
    ELSE LET client == Head(queue)
         IN  IF readyState[client] # "OPEN"
                THEN SendAll(Tail(queue), box, message)
             ELSE IF client \in faulty
                THEN [inbox |-> box, thrown |-> TRUE]
             ELSE SendAll(Tail(queue), [box EXCEPT ![client] = message], message)

\* the setInterval callback: update, then broadcast; an exception that
\* leaves the callback is uncaught and ends the process
TimerFires(now) ==
    /\ alive
    /\ initCalls > 0
    /\ UpdateSimulation(now)
    /\ LET message == [type |-> "POSITION_UPDATE", data |-> positions']
           sent    == IF Len(clients) > 0
                         THEN SendAll(clients, inbox, message)
                         ELSE [inbox |-> inbox, thrown |-> FALSE]
       IN  /\ inbox' = sent.inbox
           /\ alive' = ~sent.thrown
    /\ UNCHANGED <<readVars, hostVars, jobVars, stepVars, clients, readyState, faulty, syncVars>>

InitServerSpec ==
    /\ allResources = <<PlowTruck01>>
    /\ InitSim
    /\ InitRest

\* setInterval(..., 2000): milliseconds between two timer firings
TimerPeriod == 2000

NextServer ==
    \/ Startup
    \/ TimerFires((ticks + 1) * TimerPeriod)
    \/ \E ws \in Sockets :
          \/ Connect(ws)
          \/ BeginClose(ws)
          \/ OnClose(ws)
          \/ OnError(ws)
          \/ ConnectionBreaks(ws)

SpecServer == InitServerSpec /\ [][NextServer]_vars

\* C7: on a timer firing, every open subscriber whose own send does not
\* fail is sent that tick's position update, whether or not another
\* subscriber's send fails, and the process is still running afterwards so
\* that the next scheduled tick runs.
C7_SendFailureIsolated ==
    [][IsTick
         => /\ alive'
            /\ \A ws \in DOMAIN readyState :
                 (IsClient(ws) /\ readyState[ws] = "OPEN" /\ ws \notin faulty)
                 => inbox'[ws] = [type |-> "POSITION_UPDATE", data |-> positions']]_vars

----------------------------------------------------------------------------
(* Jobs and the dispatch status derived from them, part_008:64-85, 228-288 *)

\* at most MaxJobs jobs in allJobs
MaxJobs == 3

JobStatus ==
    { "draft", "scheduled", "assigned", "in_progress",
      "paused", "completed", "cancelled", "failed" }

\* the assignedResources of the request bodies of POST /api/jobs
JobBodies ==
    { [assignedResources |-> <<>>],
      [assignedResources |-> <<"loader-02">>],
      [assignedResources |-> <<"loader-01", "loader-02">>] }

\* the ids status is derived for: three that jobs of the model reference
\* and one that none does
JobResourceIds == { "loader-01", "loader-02", "excavator-03", "loader-04" }

\* j.assignedResources.some(r => r.resourceId === resourceId)
IsAssigned(job, resourceId) ==
    \E i \in 1..Len(job.assignedResources) : job.assignedResources[i] = resourceId

getJobsByResource(resourceId) ==
    SelectSeq(allJobs, LAMBDA job : IsAssigned(job, resourceId))

getJobById(id) == SelectSeq(allJobs, LAMBDA job : job.id = id)

RECURSIVE FindStatus(_, _)
\* for (const job of resourceJobs) { if (job.status === status) return ... }
FindStatus(resourceJobs, status) ==
    IF resourceJobs = <<>> THEN FALSE
    ELSE IF Head(resourceJobs).status = status THEN TRUE
    ELSE FindStatus(Tail(resourceJobs), status)

\* one loop over the jobs that answers for the first active job it meets
getResourceStatusFromJobs_FirstActive(resourceId) ==
    LET resourceJobs == getJobsByResource(resourceId)
        active == {i \in 1..Len(resourceJobs) :
                      resourceJobs[i].status \in {"in_progress", "assigned"}}
    IN  IF active = {} THEN "available"
        ELSE LET first == CHOOSE i \in active : \A k \in active : i <= k
             IN  IF resourceJobs[first].status = "in_progress" THEN "on_job"
                 ELSE "en_route"

getResourceStatusFromJobs(resourceId) ==
    LET resourceJobs == getJobsByResource(resourceId)
    IN  IF FindStatus(resourceJobs, "in_progress") THEN "on_job"
        ELSE IF FindStatus(resourceJobs, "assigned") THEN "en_route"
        ELSE "available"

\* broadcastEvent: send to the open sockets; an exception is caught by the
\* request layer, the process goes on
broadcastEvent(event) ==
    /\ inbox' = SendAll(clients, inbox, event).inbox
    /\ UNCHANGED <<clients, readyState, faulty, alive>>

\* POST /api/jobs: the body's fields under a new id, status 'scheduled'
PostJob(body) ==
    /\ Len(allJobs) < MaxJobs
    /\ LET newJob == [id |-> "job-" \o ToString(Len(allJobs) + 1),
                      status |-> "scheduled",
                      assignedResources |-> body.assignedResources]
       IN  /\ allJobs' = Append(allJobs, newJob)
           /\ broadcastEvent([type |-> "JOB_STATUS_CHANGE",
                              data |-> [jobId |-> newJob.id, status |-> "scheduled"]])
    /\ UNCHANGED <<simVars, readVars, hostVars, stepVars, syncVars>>

\* PATCH /api/jobs/:id/status of a job that exists, with a status in the body
PatchJobStatus(jobId, status) ==
    /\ getJobById(jobId) # <<>>
    /\ allJobs' = [i \in 1..Len(allJobs) |->
                     IF i = CHOOSE k \in 1..Len(allJobs) :
                              /\ allJobs[k].id = jobId
                              /\ \A m \in 1..(k - 1) : allJobs[m].id # jobId
                        THEN [allJobs[i] EXCEPT !.status = status]
                        ELSE allJobs[i]]
    /\ broadcastEvent([type |-> "JOB_STATUS_CHANGE",
                       data |-> [jobId |-> jobId, status |-> status]])
    /\ UNCHANGED <<simVars, readVars, hostVars, stepVars, syncVars>>

InitJobsSpec ==
    /\ allResources = <<PlowTruck01>>
    /\ InitSim
    /\ InitRest

NextJobs ==
    \/ \E body \in JobBodies : PostJob(body)
    \/ \E i \in 1..Len(allJobs), status \in JobStatus :
          PatchJobStatus(allJobs[i].id, status)

SpecJobs == InitJobsSpec /\ [][NextJobs]_vars

\* the statuses of the jobs that reference the resource, as a set
StatusesOf(resourceId) ==
    { allJobs[i].status : i \in { k \in 1..Len(allJobs) : IsAssigned(allJobs[k], resourceId) } }

\* C8: getResourceStatusFromJobs(r) is on_job if any job referencing r is
\* in_progress, otherwise en_route if any is assigned, otherwise available,
\* whatever the order of the jobs in allJobs.
C8_StatusPrecedence ==
    \A r \in JobResourceIds :
        getResourceStatusFromJobs(r) =
            IF "in_progress" \in StatusesOf(r) THEN "on_job"
            ELSE IF "assigned" \in StatusesOf(r) THEN "en_route"
            ELSE "available"

\* a resource whose first job is assigned and whose later job is in progress,
\* and a resource whose jobs are neither
C8_Witness ==
    /\ LET resourceJobs == getJobsByResource("loader-02")
       IN  /\ Len(resourceJobs) >= 2
           /\ resourceJobs[1].status = "assigned"
           /\ resourceJobs[2].status = "in_progress"
    /\ getResourceStatusFromJobs("loader-02") = "on_job"
    /\ StatusesOf("excavator-03") = {"assigned"}

----------------------------------------------------------------------------
(* Reads of the store between ticks, simulation.ts:188-203 and
   part_008:482-483 *)

\* at most MaxReads calls of getAllPositions between two ticks
MaxReads == 2

InitReadsSpec ==
    /\ allResources \in { <<Excavator01>>, <<PlowTruck01>> }
    /\ InitSim
    /\ InitRest

\* a tick; the reads made before it are forgotten
TickBetweenReads ==
    /\ initCalls > 0
    /\ \E now \in ClockValues : UpdateSimulation(now)
    /\ snapshot' = EmptyMap
    /\ reads' = 0
    /\ UNCHANGED <<serverVars, jobVars, stepVars, hostVars, syncVars>>

\* a read that moves what it reads: every position is jittered after the
\* result is built
ReadAll_Jittering ==
    /\ initCalls > 0
    /\ reads < MaxReads
    /\ snapshot' = getAllPositions
    /\ reads' = reads + 1
    /\ simulationStates' =
          [id \in DOMAIN simulationStates |->
              [simulationStates[id] EXCEPT
                  !.currentPosition = addJitter(@, 2, 1, 1)]]
    /\ UNCHANGED <<allResources, positions, ticks, initCalls, initError,
                   serverVars, jobVars, stepVars, hostVars, syncVars>>

\* GET /api/dashboard: the getAllPositions call of a request handler;
\* handlers run once the listener is up, after initialization
ReadAll ==
    /\ initCalls > 0
    /\ reads < MaxReads
    /\ snapshot' = getAllPositions
    /\ reads' = reads + 1
    /\ UNCHANGED <<simVars, serverVars, jobVars, stepVars, hostVars, syncVars>>

NextReads == Startup \/ TickBetweenReads \/ ReadAll

SpecReads == InitReadsSpec /\ [][NextReads]_vars

\* C9: once getAllPositions has been called since the latest tick, a call
\* made now returns the same result, for every resource and every field:
\* any two calls with no tick between them return equal results.
C9_ReadsAgreeBetweenTicks ==
    reads >= 1 => snapshot = getAllPositions

\* two reads after a tick, with no tick between them
C9_Witness ==
    /\ ticks >= 1
    /\ reads >= 2
    /\ DOMAIN snapshot # {}

----------------------------------------------------------------------------
(* updateSimulation statement by statement, simulation.ts:112-163, and the
   readers of the store.  The function is synchronous: the handlers of the
   readers run between two calls of it, never within one. *)

InitStepsSpec ==
    /\ allResources \in { <<PlowTruck01>>, <<Excavator01>> }
    /\ InitSim
    /\ InitRest

\* the keys of the Map in insertion order: the order of allResources
StoreOrder == [i \in 1..Len(allResources) |-> allResources[i].id]

\* a timer whose callback starts while the previous one is still at work
BeginUpdate_Reentrant(now) ==
    /\ initCalls > 0
    /\ ticks < MaxTicks
    /\ running' = TRUE
    /\ pending' = StoreOrder
    /\ phase' = "move"
    /\ tickNow' = now
    /\ before' = simulationStates
    /\ observed' = [id \in {x \in DOMAIN observed : observed[x].after = ticks}
                       |-> observed[id]]
    /\ positions' = EmptyMap
    /\ ticks' = ticks + 1
    /\ UNCHANGED <<allResources, simulationStates, initCalls, initError,
                   readVars, hostVars, serverVars, jobVars, syncVars>>

\* lines 113-114: now is read, the Map of the samples is new and empty; what
\* readers got before the previous update is forgotten
BeginUpdate(now) ==
    /\ initCalls > 0
    /\ ~running
    /\ ticks < MaxTicks
    /\ running' = TRUE
    /\ pending' = StoreOrder
    /\ phase' = "move"
    /\ tickNow' = now
    /\ before' = simulationStates
    /\ observed' = [id \in {x \in DOMAIN observed : observed[x].after = ticks}
                       |-> observed[id]]
    /\ positions' = EmptyMap
    /\ ticks' = ticks + 1
    /\ UNCHANGED <<allResources, simulationStates, initCalls, initError,
                   readVars, hostVars, serverVars, jobVars, syncVars>>

\* lines 117-146 for the resource the loop is at
StepMove ==
    /\ running
    /\ phase = "move"
    /\ LET id == Head(pending)
       IN  \E d \in DrawsOf(simulationStates[id], tickNow) :
              simulationStates' =
                 [simulationStates EXCEPT ![id] = MoveState(@, tickNow, d)]
    /\ phase' = "stamp"
    /\ UNCHANGED <<allResources, positions, ticks, initCalls, initError,
                   running, pending, tickNow, before, observed,
                   readVars, hostVars, serverVars, jobVars, syncVars>>

\* lines 148-157 for that resource, then on to the next one or to the return
StepStamp ==
    /\ running
    /\ phase = "stamp"
    /\ LET id == Head(pending)
       IN  /\ simulationStates' =
                 [simulationStates EXCEPT ![id] = StampState(@, tickNow)]
           /\ \E acc \in Random :
                 positions' = (id :> Sample(simulationStates'[id], tickNow, [acc |-> acc]))
                              @@ positions
    /\ pending' = Tail(pending)
    /\ phase' = "move"
    /\ running' = (Len(pending) > 1)
    /\ UNCHANGED <<allResources, ticks, initCalls, initError,
                   tickNow, before, observed, readVars, hostVars, serverVars, jobVars, syncVars>>

\* a reader that runs whenever it is asked to, within an update too
Observe_Preempting(resourceId) ==
    /\ initCalls > 0
    /\ resourceId \in DOMAIN simulationStates
    /\ observed' = (resourceId :> [after    |-> ticks,
                                   position |-> getResourcePosition(resourceId)])
                   @@ observed
    /\ UNCHANGED <<simVars, readVars, hostVars, serverVars, jobVars,
                   running, pending, phase, tickNow, before, syncVars>>

\* GET /api/resources/:id/position: a getResourcePosition call of a request
\* handler, run between two updates
Observe(resourceId) ==
    /\ initCalls > 0
    /\ ~running
    /\ resourceId \in DOMAIN simulationStates
    /\ observed' = (resourceId :> [after    |-> ticks,
                                   position |-> getResourcePosition(resourceId)])
                   @@ observed
    /\ UNCHANGED <<simVars, readVars, hostVars, serverVars, jobVars,
                   running, pending, phase, tickNow, before, syncVars>>

NextSteps ==
    \/ Startup
    \/ \E now \in ClockValues : BeginUpdate(now)
    \/ StepMove
    \/ StepStamp
    \/ \E resourceId \in ResourceIds : Observe(resourceId)

SpecSteps == InitStepsSpec /\ [][NextSteps]_vars

\* C10: what a reader got for a resource before the latest update began is,
\* field for field, the record as it was before that update; what it got
\* since is the record as it was before that update or as it is after it:
\* never a mix of the two.
C10_NoHalfUpdatedRecord ==
    \A id \in DOMAIN observed :
        ~running =>
            IF observed[id].after < ticks
            THEN observed[id].position = GeoPositionOf(before[id])
            ELSE \/ id \in DOMAIN before
                    /\ observed[id].position = GeoPositionOf(before[id])
                 \/ observed[id].position = GeoPositionOf(simulationStates[id])

\* a reader got a record, and an update that moved the resource and stamped
\* the record has run since
C10_Witness ==
    /\ ~running
    /\ ticks >= 1
    /\ \E id \in DOMAIN observed :
          /\ observed[id].after < ticks
          /\ observed[id].position.latitude # simulationStates[id].currentPosition.latitude
          /\ observed[id].position.timestamp # simulationStates[id].lastUpdate

\* C11: an updateSimulation run begins only when none is in progress, and
\* the Map of the SimulationStates changes only within such a run (or when
\* initializeSimulation seeds it).
C11_SingleWriter ==
    [][/\ ticks' = ticks + 1 => ~running
       /\ simulationStates' # simulationStates
             => (running \/ initCalls' = initCalls + 1)]_vars

\* a second update is at work on a record, the first one having returned
C11_Witness ==
    /\ running
    /\ phase = "stamp"
    /\ ticks >= 2
    /\ simulationStates # before

----------------------------------------------------------------------------
(* Shutdown, part_008:678-709 *)

\* setTimeout(..., 5000): milliseconds from gracefulShutdown to the forced exit
ForcedExitDelay == 5000

RECURSIVE CloseAll(_, _)
\* clients.forEach: client.close(1000, ...) on every open socket
CloseAll(queue, states) ==
    IF queue = <<>> THEN states
    ELSE CloseAll(Tail(queue),
                  IF states[Head(queue)] = "OPEN"
                     THEN [states EXCEPT ![Head(queue)] = "CLOSING"]
                     ELSE states)

\* gracefulShutdown(signal), the signal coming offset ms after the latest
\* timer firing: the sockets are closed and the Set is cleared, the servers
\* are told to close, the forced exit is scheduled; the interval timer is
\* left as it is
GracefulShutdown(offset) ==
    /\ alive
    /\ initCalls > 0
    /\ ~shuttingDown
    /\ readyState' = CloseAll(clients, readyState)
    /\ clients' = <<>>
    /\ shuttingDown' = TRUE
    /\ exitDeadline' = ticks * TimerPeriod + offset + ForcedExitDelay
    /\ UNCHANGED <<simVars, readVars, jobVars, stepVars, faulty, inbox, alive, response, pc, syncVars>>

\* process.exit: by the callback of server.close once every connection has
\* ended, or by the forced-exit timeout
ProcessExit ==
    /\ alive
    /\ shuttingDown
    /\ alive' = FALSE
    /\ UNCHANGED <<simVars, readVars, jobVars, stepVars, clients, readyState, faulty, inbox,
                   hostVars, syncVars>>

\* a firing of the interval timer, as long as the process has not exited
TimerFiresUntilExit ==
    /\ shuttingDown => (ticks + 1) * TimerPeriod < exitDeadline
    /\ TimerFires((ticks + 1) * TimerPeriod)

InitShutdownSpec ==
    /\ allResources = <<PlowTruck01>>
    /\ InitSim
    /\ InitRest

NextShutdown ==
    \/ Startup
    \/ TimerFiresUntilExit
    \/ \E ws \in Sockets : Connect(ws) \/ OnClose(ws)
    \/ \E offset \in {0, TimerPeriod - 1} : GracefulShutdown(offset)
    \/ ProcessExit

SpecShutdown == InitShutdownSpec /\ [][NextShutdown]_vars

\* C12: once gracefulShutdown has run, no further updateSimulation call is
\* made.
C12_NoTickAfterShutdown ==
    [][shuttingDown => ticks' = ticks]_vars

----------------------------------------------------------------------------
(* The simulation with one resource at a time: a loader, a plough truck and
   a tanker, whose type createInitialState leaves idle *)

InitLegs ==
    /\ allResources \in { <<Loader01>>, <<PlowTruck01>>, <<Tanker01>> }
    /\ InitSim
    /\ InitRest

SpecLegs == InitLegs /\ [][Next]_vars

----------------------------------------------------------------------------
(* Claims about the samples: C13 checked under Spec, C14 under SpecLegs *)

\* C13: after a tick, getAllPositions returns for every resource the sample
\* the latest updateSimulation call emitted for it, field for field
\* (latitude, longitude, timestamp, speed, heading and accuracy).
C13_ReadReturnsLatestSample ==
    ticks >= 1 => getAllPositions = positions

\* C14: for every idle resource the speed is 0 in the sample of the latest
\* updateSimulation call, in the result of getResourcePosition and in the
\* result of getAllPositions.
C14_IdleReportsNoSpeed ==
    \A id \in DOMAIN simulationStates :
        simulationStates[id].status = "idle"
        => /\ id \in DOMAIN positions => positions[id].speed = 0
           /\ getResourcePosition(id).speed = 0
           /\ getAllPositions[id].speed = 0

\* an idle resource has been through two ticks and has a sample
C14_Witness ==
    /\ ticks >= 2
    /\ \E id \in DOMAIN positions :
          /\ simulationStates[id].status = "idle"
          /\ positions[id].speed = 0
          /\ positions[id].timestamp = simulationStates[id].lastUpdate

----------------------------------------------------------------------------
(* Claims about one tick of one resource, checked under SpecLegs *)

\* C15: a tick leaves a resource's waypointIndex as it is or advances it by
\* one step of the loop, whatever the dt; a resource that can travel as far
\* as its target or farther ends the tick at the target it had.
C15_AtMostOneAdvance ==
    [][IsTick =>
         \A id \in DOMAIN simulationStates :
            LET state == simulationStates[id]
                after == simulationStates'[id]
                len   == Len(state.waypoints)
            IN  /\ \/ after.waypointIndex = state.waypointIndex
                   \/ len > 0 /\ after.waypointIndex = (state.waypointIndex + 1) % len
                /\ (state.status # "idle" /\ Reached(state, after.lastUpdate))
                      => after.currentPosition = state.targetPosition]_vars

\* a loader has ended its first tick at the second of its three waypoints,
\* having had the time to travel the first two legs of its loop and more
C15_Witness ==
    /\ ticks = 1
    /\ \E id \in DOMAIN simulationStates :
          LET state == simulationStates[id]
          IN  /\ Len(state.waypoints) = 3
              /\ state.waypointIndex = 1
              /\ state.currentPosition = state.waypoints[2]
              /\ state.waypoints[1] # state.waypoints[2]
              /\ state.waypoints[2] # state.waypoints[3]
              /\ state.speed * (state.lastUpdate \div 1000)
                    > calculateDistance(state.waypoints[1], state.waypoints[2])
                      + calculateDistance(state.waypoints[2], state.waypoints[3])

\* C16: a tick of a resource under way with dt > 0 and a travelable distance
\* step = speed * dt smaller than the remaining distance to the target leaves
\* waypointIndex and targetPosition as they are and the resource strictly
\* closer to its target: the remaining distance shrinks by step (to within
\* the rounding of the grid, 4 distance units).
C16_PartialStepApproaches ==
    [][IsTick =>
         \A id \in DOMAIN simulationStates :
            LET state     == simulationStates[id]
                after     == simulationStates'[id]
                step      == state.speed * DeltaTime(state, after.lastUpdate)
                remaining == calculateDistance(state.currentPosition, state.targetPosition)
                left      == calculateDistance(after.currentPosition, after.targetPosition)
            IN  ( /\ state.status # "idle"
                  /\ DeltaTime(state, after.lastUpdate) > 0
                  /\ remaining # NaN
                  /\ step < remaining )
                => /\ after.waypointIndex = state.waypointIndex
                   /\ after.targetPosition = state.targetPosition
                   /\ left < remaining
                   /\ left - (remaining - step) <= 4
                   /\ (remaining - step) - left <= 4]_vars

\* a truck is on its first leg, between its first waypoint and its target
C16_Witness ==
    /\ ticks >= 1
    /\ \E id \in DOMAIN simulationStates :
          LET state == simulationStates[id]
          IN  /\ state.status = "moving"
              /\ state.waypointIndex = 0
              /\ state.lastUpdate > 0
              /\ state.currentPosition # state.waypoints[1]
              /\ state.currentPosition # state.targetPosition
              /\ state.targetPosition = state.waypoints[2]

----------------------------------------------------------------------------
(* createInitialState for resources whose id has no number, the number zero
   or no digits where the number is expected *)

OddResources ==
    { [id |-> "plow-truck",    type |-> "plow_truck"],
      [id |-> "plow-truck-00", type |-> "plow_truck"],
      [id |-> "plow-truck-xx", type |-> "plow_truck"],
      [id |-> "haul-truck-00", type |-> "haul_truck"],
      [id |-> "excavator-00",  type |-> "excavator"],
      [id |-> "loader-xx",     type |-> "wheel_loader"],
      Tanker01 }

InitIds ==
    /\ allResources \in { <<resource>> : resource \in OddResources }
    /\ InitSim
    /\ InitRest

SpecIds == InitIds /\ [][Next]_vars

\* C17: once initializeSimulation has run, every resource has at least one
\* waypoint and a waypointIndex that is an index of its waypoints list,
\* whatever its type and whatever the number in its id (missing, zero, not a
\* number).
C17_WaypointsNeverEmpty ==
    initCalls > 0 =>
        \A id \in DOMAIN simulationStates :
            LET state == simulationStates[id]
            IN  /\ Len(state.waypoints) >= 1
                /\ HasIndex(state.waypoints, state.waypointIndex)

----------------------------------------------------------------------------
(* The read endpoints of the request layer: GET /api/resources,
   GET /api/resources/:id, GET /api/resources/:id/position and
   GET /api/dashboard, next to PATCH /api/jobs/:id/status and the timer.
   response holds the status code of the latest response and the fields of
   its body that carry a resource's status or position; reads counts the
   requests answered. *)

\* createResource: every resource of the catalogue is made with this status
CatalogStatus(resource) == "available"

\* getResourceById(id): allResources.find(r => r.id === id), <<>> for undefined
getResourceById(id) == SelectSeq(allResources, LAMBDA resource : resource.id = id)

\* the first two jobs of plowingJobs
PlowingJobs ==
    << [id |-> "job-plow-001", status |-> "in_progress",
        assignedResources |-> <<"plow-truck-01">>],
       [id |-> "job-plow-002", status |-> "scheduled",
        assignedResources |-> <<"plow-truck-02">>] >>

\* the statuses of the bodies of the PATCH requests
PatchStatuses == { "assigned", "in_progress", "completed" }

\* the ids of the requests: a resource of the catalogue and an id that no
\* resource has
RequestIds == { "plow-truck-01", "plow-truck-99" }

\* GET /api/resources, without a type or status filter
GetResources ==
    /\ reads < MaxReads
    /\ reads' = reads + 1
    /\ response' =
          [route |-> "GET /api/resources",
           code  |-> 200,
           data  |-> [k \in 1..Len(allResources) |->
                        [id     |-> allResources[k].id,
                         status |-> getResourceStatusFromJobs(allResources[k].id)]]]
    /\ UNCHANGED <<simVars, snapshot, serverVars, jobVars, stepVars,
                   shuttingDown, exitDeadline, pc, syncVars>>

\* a handler that passes on the status of the catalogue record
GetResource_Cataloged(resourceId) ==
    /\ reads < MaxReads
    /\ reads' = reads + 1
    /\ LET found == getResourceById(resourceId)
       IN  response' =
              IF found = <<>>
              THEN [route |-> "GET /api/resources/:id", code |-> 404,
                    resourceId |-> resourceId]
              ELSE [route |-> "GET /api/resources/:id", code |-> 200,
                    resourceId |-> resourceId,
                    data |-> [id     |-> found[1].id,
                              status |-> CatalogStatus(found[1])]]
    /\ UNCHANGED <<simVars, snapshot, serverVars, jobVars, stepVars,
                   shuttingDown, exitDeadline, pc, syncVars>>

\* GET /api/resources/:id
GetResource(resourceId) ==
    /\ reads < MaxReads
    /\ reads' = reads + 1
    /\ LET found == getResourceById(resourceId)
       IN  response' =
              IF found = <<>>
              THEN [route |-> "GET /api/resources/:id", code |-> 404,
                    resourceId |-> resourceId]
              ELSE [route |-> "GET /api/resources/:id", code |-> 200,
                    resourceId |-> resourceId,
                    data |-> [id     |-> found[1].id,
                              status |-> getResourceStatusFromJobs(resourceId)]]
    /\ UNCHANGED <<simVars, snapshot, serverVars, jobVars, stepVars,
                   shuttingDown, exitDeadline, pc, syncVars>>

\* GET /api/resources/:id/position
GetResourcePosition(resourceId) ==
    /\ reads < MaxReads
    /\ reads' = reads + 1
    /\ LET position == getResourcePosition(resourceId)
       IN  response' =
              IF position = Undefined
              THEN [route |-> "GET /api/resources/:id/position", code |-> 404,
                    resourceId |-> resourceId]
              ELSE [route |-> "GET /api/resources/:id/position", code |-> 200,
                    resourceId |-> resourceId,
                    data |-> position]
    /\ UNCHANGED <<simVars, snapshot, serverVars, jobVars, stepVars,
                   shuttingDown, exitDeadline, pc, syncVars>>

\* GET /api/dashboard: the count of active resources and the resource
\* records of resourcePositions
GetDashboard ==
    /\ reads < MaxReads
    /\ reads' = reads + 1
    /\ LET all    == getAllPositions
           active == { k \in 1..Len(allResources) :
                         LET r == allResources[k]
                         IN  \/ r.id \in DOMAIN all /\ all[r.id].speed > 0
                             \/ CatalogStatus(r) = "on_job"
                             \/ CatalogStatus(r) = "en_route" }
       IN  response' =
              [route |-> "GET /api/dashboard",
               code  |-> 200,
               resourcesActive |-> Cardinality(active),
               resourcePositions |->
                  [id \in DOMAIN all |->
                      [resourceId |-> id,
                       resource   |-> IF getResourceById(id) = <<>> THEN Undefined
                                      ELSE [id     |-> id,
                                            status |-> CatalogStatus(getResourceById(id)[1])]]]]
    /\ UNCHANGED <<simVars, snapshot, serverVars, jobVars, stepVars,
                   shuttingDown, exitDeadline, pc, syncVars>>

InitApi ==
    /\ allResources = <<PlowTruck01>>
    /\ InitSim
    /\ InitReads /\ InitServer /\ InitSteps /\ InitHost /\ InitSync
    /\ allJobs = PlowingJobs

NextApi ==
    \/ Startup
    \/ TimerFires((ticks + 1) * TimerPeriod)
    \/ \E i \in 1..Len(allJobs), status \in PatchStatuses :
          PatchJobStatus(allJobs[i].id, status)
    \/ GetResources
    \/ \E resourceId \in RequestIds :
          \/ GetResource(resourceId)
          \/ GetResourcePosition(resourceId)
    \/ GetDashboard

SpecApi == InitApi /\ [][NextApi]_vars

\* a request of the route is answered in this step
Answers(route) == reads' = reads + 1 /\ response'.route = route

\* the status the precedence rule gives for the current jobs of a resource
Precedence(resourceId) ==
    IF "in_progress" \in StatusesOf(resourceId) THEN "on_job"
    ELSE IF "assigned" \in StatusesOf(resourceId) THEN "en_route"
    ELSE "available"

\* C18: getResourcePosition of an id that is not in the store is undefined;
\* the position request for such an id is answered with 404, and the store,
\* the samples and the tick count are as they were.
C18_UnknownIdNotFound ==
    [][\A resourceId \in RequestIds :
          ( /\ Answers("GET /api/resources/:id/position")
            /\ response'.resourceId = resourceId
            /\ resourceId \notin DOMAIN simulationStates )
          => /\ getResourcePosition(resourceId) = Undefined
             /\ response'.code = 404
             /\ alive'
             /\ UNCHANGED simVars]_vars

\* the position of an id no resource has was asked for after start-up
C18_Witness ==
    /\ initCalls > 0
    /\ ticks >= 1
    /\ response.route = "GET /api/resources/:id/position"
    /\ response.resourceId \notin DOMAIN simulationStates
    /\ response.code = 404

\* C19: a read of GET /api/resources or GET /api/resources/:id reports for
\* every resource the status the precedence rule gives for the jobs as they
\* are at the read, so a status set by PATCH shows in the next read without
\* a tick; the read changes neither the jobs nor the kinematic state.
C19_StatusFreshOnRead ==
    [][/\ Answers("GET /api/resources")
          => /\ \A k \in DOMAIN response'.data :
                   response'.data[k].status = Precedence(response'.data[k].id)
             /\ UNCHANGED <<simVars, jobVars>>
       /\ (Answers("GET /api/resources/:id") /\ response'.code = 200)
          => /\ response'.data.status = Precedence(response'.resourceId)
             /\ UNCHANGED <<simVars, jobVars>>]_vars

\* before any tick, a read reports en_route for the plough truck, which no
\* job gave it at the start: its job was set to assigned by a PATCH
C19_Witness ==
    /\ ticks = 0
    /\ response.route = "GET /api/resources/:id"
    /\ response.code = 200
    /\ response.data.status = "en_route"
    /\ Precedence(response.resourceId) = "en_route"

\* C20: the resource records of GET /api/dashboard carry the status the
\* resolver derives from the current jobs, and resourcesActive counts the
\* resources that move or have that status on_job or en_route, as
\* GET /api/resources and GET /api/resources/:id report it.
C20_DashboardUsesResolver ==
    [][Answers("GET /api/dashboard")
         => /\ \A id \in DOMAIN response'.resourcePositions :
                  response'.resourcePositions[id].resource.status = Precedence(id)
            /\ response'.resourcesActive =
                  Cardinality({ k \in 1..Len(allResources) :
                      LET id == allResources[k].id
                      IN  \/ id \in DOMAIN getAllPositions /\ getAllPositions[id].speed > 0
                          \/ Precedence(id) \in {"on_job", "en_route"} })]_vars

----------------------------------------------------------------------------
(* The router: a GET request goes to the handler of the first registered
   route whose pattern matches its path. Paths and patterns are the segments
   after /api. *)

\* the patterns of the GET routes of the model, in the order of registration
GetRoutes ==
    << <<"resources">>,
       <<"resources", ":id">>,
       <<"resources", ":id", "position">>,
       <<"resources", "positions">>,
       <<"dashboard">> >>

\* a pattern matches a path of as many segments whose literal segments agree
Matches(pattern, path) ==
    /\ Len(pattern) = Len(path)
    /\ \A i \in 1..Len(pattern) : pattern[i] = ":id" \/ pattern[i] = path[i]

\* the index of the first route that matches, 0 when none does
Dispatch(path) ==
    LET matching == { k \in 1..Len(GetRoutes) : Matches(GetRoutes[k], path) }
    IN  IF matching = {} THEN 0
        ELSE CHOOSE k \in matching : \A m \in matching : k <= m

\* GET /api/resources/positions
GetPositions ==
    /\ reads < MaxReads
    /\ reads' = reads + 1
    /\ response' = [route |-> "GET /api/resources/positions",
                    code  |-> 200,
                    data  |-> getAllPositions]
    /\ UNCHANGED <<simVars, snapshot, serverVars, jobVars, stepVars,
                   shuttingDown, exitDeadline, pc, syncVars>>

\* the 404 handler registered after every route
NotFound ==
    /\ reads < MaxReads
    /\ reads' = reads + 1
    /\ response' = [route |-> "none", code |-> 404]
    /\ UNCHANGED <<simVars, snapshot, serverVars, jobVars, stepVars,
                   shuttingDown, exitDeadline, pc, syncVars>>

\* a GET request for the path
Request(path) ==
    LET k == Dispatch(path)
    IN  CASE k = 1 -> GetResources
          [] k = 2 -> GetResource(path[2])
          [] k = 3 -> GetResourcePosition(path[2])
          [] k = 4 -> GetPositions
          [] k = 5 -> GetDashboard
          [] OTHER -> NotFound

RequestPaths ==
    { <<"resources">>,
      <<"resources", "plow-truck-01">>,
      <<"resources", "positions">>,
      <<"resources", "plow-truck-01", "position">>,
      <<"dashboard">>,
      <<"resources", "plow-truck-01", "jobs">> }

NextRoutes ==
    \/ Startup
    \/ TimerFires((ticks + 1) * TimerPeriod)
    \/ \E path \in RequestPaths : Request(path)

SpecRoutes == InitApi /\ [][NextRoutes]_vars

\* C21: a GET request for /api/resources/positions is answered by the
\* positions handler with 200 and one entry per resource of the store.
C21_PositionsRouteListsAll ==
    [][Request(<<"resources", "positions">>)
         => /\ response'.code = 200
            /\ response'.route = "GET /api/resources/positions"
            /\ DOMAIN response'.data = DOMAIN simulationStates]_vars

----------------------------------------------------------------------------
(* The simulation with a fleet of two: a plough truck under way and a tanker
   that stands still *)

InitFleet ==
    /\ allResources = <<PlowTruck01, Tanker01>>
    /\ InitSim
    /\ InitRest

SpecFleet == InitFleet /\ [][Next]_vars

\* C22: a tick returns one sample for every resource of the store, whose keys
\* are the ids of the fleet from initialization on, and there is one now that
\* is the timestamp of every sample and the lastUpdate of every resource
\* after the tick.
C22_OneNowForAll ==
    [][/\ initCalls > 0 => DOMAIN simulationStates' = ResourceIds
       /\ IsTick =>
             /\ DOMAIN positions' = ResourceIds
             /\ \E now \in ClockValues :
                   \A id \in ResourceIds :
                      /\ positions'[id].timestamp = now
                      /\ simulationStates'[id].lastUpdate = now]_vars

\* two ticks at different times have passed over the truck and the tanker
C22_Witness ==
    /\ ticks >= 2
    /\ Cardinality(DOMAIN positions) = 2
    /\ \E now \in ClockValues \ {0} :
          \A id \in DOMAIN positions :
             /\ positions[id].timestamp = now
             /\ simulationStates[id].lastUpdate = now

----------------------------------------------------------------------------
(* Claims about what a tick leaves alone, checked under SpecLegs *)

\* C23: a tick leaves every resource's status, resourceId and waypoints list
\* as they are, so they keep the values of createInitialState whatever the
\* number of ticks.
C23_TickKeepsModeIdAndRoute ==
    [][IsTick =>
         \A id \in DOMAIN simulationStates :
            /\ simulationStates'[id].status = simulationStates[id].status
            /\ simulationStates'[id].resourceId = simulationStates[id].resourceId
            /\ simulationStates'[id].waypoints = simulationStates[id].waypoints]_vars

\* a loader has arrived at waypoints in two ticks and is still working
C23_Witness ==
    /\ ticks >= 2
    /\ \E id \in DOMAIN simulationStates :
          LET state == simulationStates[id]
          IN  /\ state.status = "working"
              /\ state.resourceId = id
              /\ state.waypointIndex = 2
              /\ Len(state.waypoints) = 3

----------------------------------------------------------------------------
(* createInitialState over resources numbered 1, 2, 4 and 5, one at a time *)

NumberedResources ==
    { PlowTruck01,
      [id |-> "plow-truck-04", type |-> "plow_truck"],
      [id |-> "plow-truck-05", type |-> "plow_truck"],
      HaulTruck01,
      [id |-> "haul-truck-02", type |-> "haul_truck"],
      [id |-> "haul-truck-04", type |-> "haul_truck"],
      Loader01,
      Excavator01,
      Tanker01 }

InitAssign ==
    /\ allResources \in { <<resource>> : resource \in NumberedResources }
    /\ InitSim
    /\ InitRest

SpecAssign == InitAssign /\ [][Next]_vars

\* the number n in the ids of the trucks of NumberedResources
TruckNumber(id) ==
    CASE id \in {"plow-truck-01", "haul-truck-01"} -> 1
      [] id = "haul-truck-02" -> 2
      [] id \in {"plow-truck-04", "haul-truck-04"} -> 4
      [] id = "plow-truck-05" -> 5

\* C24: a plough truck numbered n has the waypoints of patrol route
\* (n-1) mod routeCount and status moving; a haul truck numbered n has the
\* loop depot, quarry, project area (n-1) mod areaCount, depot, with the
\* north quarry when n-1 is even and the south quarry when it is odd, and
\* status moving; loaders and excavators have status working; a resource of
\* another type has the one waypoint depot, status idle and speed 0.
C24_RouteByTypeAndNumber ==
    initCalls > 0 =>
        \A id \in DOMAIN simulationStates :
            LET state == simulationStates[id]
                type  == ResourceOf(id).type
            IN  CASE type = "plow_truck" ->
                        LET route == PLOW_ROUTES[((TruckNumber(id) - 1) % Len(PLOW_ROUTES)) + 1]
                        IN  /\ state.status = "moving"
                            /\ Len(state.waypoints) = Len(route.waypoints)
                            /\ \A k \in 1..Len(route.waypoints) :
                                  /\ state.waypoints[k].latitude = route.waypoints[k].lat
                                  /\ state.waypoints[k].longitude = route.waypoints[k].lng
                  [] type = "haul_truck" ->
                        LET n == TruckNumber(id)
                        IN  /\ state.status = "moving"
                            /\ state.waypoints =
                                  << DEMO_GARAGE,
                                     IF (n - 1) % 2 = 0 THEN DEMO_QUARRY_NORTH
                                                        ELSE DEMO_QUARRY_SOUTH,
                                     PROJECT_AREAS[((n - 1) % Len(PROJECT_AREAS)) + 1].coordinates,
                                     DEMO_GARAGE >>
                  [] type \in {"wheel_loader", "excavator"} ->
                        state.status = "working"
                  [] OTHER ->
                        /\ state.waypoints = <<DEMO_GARAGE>>
                        /\ state.status = "idle"
                        /\ state.speed = 0

\* haul truck 4 is in the store: its project area is the first again and its
\* quarry the south one
C24_Witness ==
    /\ initCalls > 0
    /\ "haul-truck-04" \in DOMAIN simulationStates
    /\ simulationStates["haul-truck-04"].waypoints[2] = DEMO_QUARRY_SOUTH
    /\ simulationStates["haul-truck-04"].waypoints[3] = PROJECT_AREAS[1].coordinates

----------------------------------------------------------------------------
(* Claims about the broadcast of a tick, checked under SpecServer *)

\* C25: on a timer firing, every subscriber of the Set whose socket is open
\* (and whose connection has not broken under it) is sent the position
\* update of that tick, with one entry per resource of the store; a socket
\* that has left the Set or is no longer open is sent nothing.
C25_EveryOpenSubscriberGetsUpdate ==
    [][IsTick =>
         \A ws \in DOMAIN readyState :
            IF IsClient(ws) /\ readyState[ws] = "OPEN"
            THEN ws \notin faulty
                 => /\ inbox'[ws].type = "POSITION_UPDATE"
                    /\ inbox'[ws].data = positions'
                    /\ DOMAIN inbox'[ws].data = DOMAIN simulationStates
            ELSE inbox'[ws] = inbox[ws]]_vars

----------------------------------------------------------------------------
(* The start of the server: the top-level statements of the server module,
   which run to completion one after the other when the module is loaded *)

\* what the call initializeSimulation() evaluates to: the function is declared
\* void and has no return statement
initializeSimulationResult == Undefined

\* whether value.catch can be called: reading a property of undefined raises
\* a TypeError
HasCatch(value) == value # Undefined

\* the module is loaded: initializeSimulation().catch(console.error), then
\* setInterval and server.listen; an exception at the top level is uncaught
\* and ends the process before the statements after it
LoadServer ==
    /\ pc = "load"
    /\ alive
    /\ InitializeSimulation(0)
    /\ IF HasCatch(initializeSimulationResult)
       THEN pc' = "serving" /\ alive' = TRUE
       ELSE pc' = "crashed" /\ alive' = FALSE
    /\ UNCHANGED <<readVars, jobVars, stepVars, clients, readyState, faulty, inbox,
                   shuttingDown, exitDeadline, response, syncVars>>

InitBoot ==
    /\ allResources \in Fleets
    /\ InitSim
    /\ InitReads /\ InitServer /\ InitJobs /\ InitSteps /\ InitSync
    /\ shuttingDown = FALSE
    /\ exitDeadline = 0
    /\ response = [route |-> "none"]
    /\ pc = "load"

NextBoot == LoadServer

SpecBoot == InitBoot /\ [][NextBoot]_vars

\* C26: the start of the server initializes the store exactly once and goes
\* on to the timer and the listener: once the store is initialized the
\* process is running and serving.
C26_StartupReachesTimer ==
    /\ initCalls <= 1
    /\ initCalls > 0 => (alive /\ pc = "serving")

----------------------------------------------------------------------------
(* Claims about a resource that stands still, checked under SpecLegs *)

\* the 0.00001 degree of the idle branch, in coordinate units
JitterAmplitude == 2

\* |a - b| <= amount
Within(a, b, amount) == a - b <= amount /\ b - a <= amount

\* C27: an idle resource's position, in the store and in the latest sample,
\* is within one jitter amplitude of its depot waypoint in latitude and in
\* longitude, whatever the number of ticks.
C27_IdleStaysAtDepot ==
    \A id \in DOMAIN simulationStates :
        LET state == simulationStates[id]
        IN  state.status = "idle"
            => /\ Within(state.currentPosition.latitude,
                         state.waypoints[1].latitude, JitterAmplitude)
               /\ Within(state.currentPosition.longitude,
                         state.waypoints[1].longitude, JitterAmplitude)
               /\ id \in DOMAIN positions
                     => /\ Within(positions[id].latitude,
                                  state.waypoints[1].latitude, JitterAmplitude)
                        /\ Within(positions[id].longitude,
                                  state.waypoints[1].longitude, JitterAmplitude)

----------------------------------------------------------------------------
(* The simulation under ticks that never end. updateSimulation uses of the
   clock only the time since the resource's lastUpdate, so the times of the
   store and of the samples are kept relative to the latest tick, and ticks
   counts no further than MaxTicks. *)

\* the seconds between two ticks
LiveSteps == {600, 1800}

\* a time seen from now
Rebase(time, now) == time - now

\* a tick that comes without the clock having advanced
LiveTick_Stalled(dt) ==
    /\ initCalls > 0
    /\ \E draws \in DrawsFor(DOMAIN simulationStates, 0) :
          /\ simulationStates' =
                [id \in DOMAIN simulationStates |->
                    LET moved == StampState(MoveState(simulationStates[id], 0, draws[id]), 0)
                    IN  [moved EXCEPT !.lastUpdate = Rebase(@, 0)]]
          /\ positions' =
                [id \in DOMAIN simulationStates |->
                    LET sample == Sample(simulationStates'[id], 0, draws[id])
                    IN  [sample EXCEPT !.timestamp = Rebase(@, 0)]]
    /\ ticks' = IF ticks < MaxTicks THEN ticks + 1 ELSE ticks
    /\ UNCHANGED <<allResources, initCalls, initError, restVars>>

\* updateSimulation(), called dt seconds after the previous tick
LiveTick(dt) ==
    /\ initCalls > 0
    /\ LET now == dt * 1000
       IN  \E draws \in DrawsFor(DOMAIN simulationStates, now) :
              /\ simulationStates' =
                    [id \in DOMAIN simulationStates |->
                        LET moved == StampState(MoveState(simulationStates[id], now,
                                                          draws[id]), now)
                        IN  [moved EXCEPT !.lastUpdate = Rebase(@, now)]]
              /\ positions' =
                    [id \in DOMAIN simulationStates |->
                        LET sample == Sample(simulationStates'[id], now, draws[id])
                        IN  [sample EXCEPT !.timestamp = Rebase(@, now)]]
    /\ ticks' = IF ticks < MaxTicks THEN ticks + 1 ELSE ticks
    /\ UNCHANGED <<allResources, initCalls, initError, restVars>>

InitLive ==
    /\ allResources \in { <<HaulTruck01>>, <<Excavator01>> }
    /\ InitSim
    /\ InitRest

NextLive == Startup \/ \E dt \in LiveSteps : LiveTick(dt)

SpecLive ==
    /\ InitLive
    /\ [][NextLive]_vars
    /\ WF_vars(Startup)
    /\ []<><<\E dt \in LiveSteps : LiveTick(dt)>>_vars

\* the resources of InitLive
LiveIds == { "haul-truck-01", "excavator-01" }

\* the positions a resource of InitLive can have as a waypoint: the depot,
\* the quarries and the project areas for the haul truck, the corners around
\* the first project area for the excavator
LivePoints ==
    {DEMO_GARAGE, DEMO_QUARRY_NORTH, DEMO_QUARRY_SOUTH}
    \cup { PROJECT_AREAS[k].coordinates : k \in 1..Len(PROJECT_AREAS) }
    \cup { [latitude  |-> PROJECT_AREAS[1].coordinates.latitude + dLat,
            longitude |-> PROJECT_AREAS[1].coordinates.longitude + dLon] :
             dLat \in {-100, 100}, dLon \in {-100, 100} }

\* C28: under ticks that keep coming with dt > 0, a resource under way whose
\* target is a point is later at that point, and its waypointIndex is every
\* index of its waypoints list again and again.
C28_KeepsArriving ==
    \A id \in LiveIds :
       /\ \A target \in LivePoints :
             (id \in DOMAIN simulationStates
                 /\ simulationStates[id].targetPosition = target)
             ~> (id \in DOMAIN simulationStates
                 /\ simulationStates[id].currentPosition = target)
       /\ \A index \in 0..3 :
             []<>(id \in DOMAIN simulationStates
                     => (index < Len(simulationStates[id].waypoints)
                           => simulationStates[id].waypointIndex = index))

\* the haul truck is back at the depot with its loop behind it, on the leg
\* of length zero from the last waypoint to the first
C28_Witness ==
    /\ ticks >= MaxTicks
    /\ "haul-truck-01" \in DOMAIN simulationStates
    /\ LET state == simulationStates["haul-truck-01"]
       IN  /\ state.waypointIndex = 0
           /\ state.currentPosition = DEMO_GARAGE
           /\ state.targetPosition = DEMO_GARAGE

----------------------------------------------------------------------------
(* POST /api/jobs with the body as the client sent it: the handler spreads
   the body into the new job without looking at its fields *)

\* request bodies: one with assignedResources, one without, one that also
\* brings a status of its own
AnyBodies ==
    { [assignedResources |-> <<"loader-02">>],
      [title |-> "Lastning"],
      [assignedResources |-> <<"loader-01">>, status |-> "in_progress"] }

\* the statuses of the PATCH bodies, one of them no JobStatus
AnyStatuses == { "assigned", "in_progress", "completed", "on_hold" }

\* { id, ...req.body, status: 'scheduled' }
NewJob(body) ==
    [status |-> "scheduled"] @@ body @@ [id |-> "job-" \o ToString(Len(allJobs) + 1)]

\* POST /api/jobs
PostBody(body) ==
    /\ Len(allJobs) < MaxJobs
    /\ allJobs' = Append(allJobs, NewJob(body))
    /\ broadcastEvent([type |-> "JOB_STATUS_CHANGE",
                       data |-> [jobId |-> NewJob(body).id, status |-> "scheduled"]])
    /\ UNCHANGED <<simVars, readVars, hostVars, stepVars, syncVars>>

\* getJobsByResource raises a TypeError: j.assignedResources.some is read of
\* a job that has no assignedResources
getJobsByResourceRaises ==
    \E i \in 1..Len(allJobs) : "assignedResources" \notin DOMAIN allJobs[i]

\* what a call getResourceStatusFromJobs(resourceId) ends in: the status it
\* returns, or the exception that leaves it
StatusOrError(resourceId) ==
    IF getJobsByResourceRaises THEN "TypeError"
    ELSE getResourceStatusFromJobs(resourceId)

NextBodies ==
    \/ \E body \in AnyBodies : PostBody(body)
    \/ \E i \in 1..Len(allJobs), status \in AnyStatuses :
          PatchJobStatus(allJobs[i].id, status)

SpecBodies == InitJobsSpec /\ [][NextBodies]_vars

\* C29: whatever jobs POST and PATCH requests have made, a call of
\* getResourceStatusFromJobs returns available, en_route or on_job for every
\* resource id, and none raises.
C29_ResolverTotal ==
    \A resourceId \in JobResourceIds :
        StatusOrError(resourceId) \in {"available", "en_route", "on_job"}

----------------------------------------------------------------------------
(* The field app's sync service, services/sync.ts over
   services/offline-storage.ts. A syncAll run is an async function: between
   two of its awaits other callbacks and other runs take their turns. The
   server's answer to a batch is the environment's choice. *)

\* the readings the GPS hands to the app
MaxReadings == 2

\* the syncAll runs that can be under way at a time
MaxRuns == 2

SyncRunIds == 1..MaxRuns

\* getUnsynedGpsReadings(): the readings of the store with synced = 0
getUnsynedGpsReadings == { id \in DOMAIN gpsQueue : gpsQueue[id] = 0 }

\* queueGpsReading of sync.ts: the reading joins the buffer (which the model
\* keeps shorter than the 10 readings that flush it at once)
QueueGpsReading ==
    /\ Cardinality(DOMAIN accepted) < MaxReadings
    /\ LET id == Cardinality(DOMAIN accepted) + 1
       IN  /\ gpsBuffer' = Append(gpsBuffer, id)
           /\ accepted' = accepted @@ (id :> 0)
    /\ UNCHANGED <<simVars, readVars, serverVars, jobVars, stepVars, hostVars,
                   online, gpsQueue, syncRuns>>

\* syncAll() is called by the caller: offline it returns at once, online the
\* run goes on to syncGpsReadings
StartRun(run, caller) ==
    /\ run \notin DOMAIN syncRuns
    /\ syncRuns' = IF online
                   THEN syncRuns @@ (run :> [at |-> "read", batch |-> {}, by |-> caller])
                   ELSE syncRuns

\* flushGpsBuffer, by its timeout: the buffered readings go to the store with
\* synced = 0, then syncAll() is called if the app is online
FlushGpsBuffer(run) ==
    /\ gpsBuffer # <<>>
    /\ gpsBuffer' = <<>>
    /\ gpsQueue' = gpsQueue @@ [id \in {gpsBuffer[k] : k \in 1..Len(gpsBuffer)} |-> 0]
    /\ StartRun(run, "flush")
    /\ UNCHANGED <<simVars, readVars, serverVars, jobVars, stepVars, hostVars,
                   online, accepted>>

\* the connection is lost
GoOffline ==
    /\ online
    /\ online' = FALSE
    /\ UNCHANGED <<simVars, readVars, serverVars, jobVars, stepVars, hostVars,
                   gpsBuffer, gpsQueue, syncRuns, accepted>>

\* the 'online' event: syncAll() is called
OnOnline(run) ==
    /\ ~online
    /\ online' = TRUE
    /\ run \notin DOMAIN syncRuns
    /\ syncRuns' = syncRuns @@ (run :> [at |-> "read", batch |-> {}, by |-> "online"])
    /\ UNCHANGED <<simVars, readVars, serverVars, jobVars, stepVars, hostVars,
                   gpsBuffer, gpsQueue, accepted>>

\* syncGpsReadings, line 67: the run reads the unsynced readings, which are
\* its one batch (the model has fewer than BATCH_SIZE); with none it returns
ReadUnsynced(run) ==
    /\ run \in DOMAIN syncRuns
    /\ syncRuns[run].at = "read"
    /\ syncRuns' =
          IF getUnsynedGpsReadings = {}
          THEN [other \in DOMAIN syncRuns \ {run} |-> syncRuns[other]]
          ELSE [syncRuns EXCEPT ![run].at = "post", ![run].batch = getUnsynedGpsReadings]
    /\ UNCHANGED <<simVars, readVars, serverVars, jobVars, stepVars, hostVars,
                   online, gpsBuffer, gpsQueue, accepted>>

\* syncGpsReadings, lines 80-101: the batch is posted; the server accepts it
\* (response.ok) or the request fails
PostBatch(run, ok) ==
    /\ run \in DOMAIN syncRuns
    /\ syncRuns[run].at = "post"
    /\ accepted' = [id \in DOMAIN accepted |->
                      IF ok /\ id \in syncRuns[run].batch THEN accepted[id] + 1
                                                           ELSE accepted[id]]
    /\ syncRuns' = [syncRuns EXCEPT ![run].at = IF ok THEN "mark" ELSE "clear"]
    /\ UNCHANGED <<simVars, readVars, serverVars, jobVars, stepVars, hostVars,
                   online, gpsBuffer, gpsQueue>>

\* markGpsReadingsAsSynced(ids): every reading of the batch that is still in
\* the store gets synced = 1
MarkSynced(run) ==
    /\ run \in DOMAIN syncRuns
    /\ syncRuns[run].at = "mark"
    /\ gpsQueue' = [id \in DOMAIN gpsQueue |->
                      IF id \in syncRuns[run].batch THEN 1 ELSE gpsQueue[id]]
    /\ syncRuns' = [syncRuns EXCEPT ![run].at = "clear"]
    /\ UNCHANGED <<simVars, readVars, serverVars, jobVars, stepVars, hostVars,
                   online, gpsBuffer, accepted>>

\* clearSyncedGpsReadings(): the readings with synced = 1 leave the store,
\* and the run ends
ClearSynced(run) ==
    /\ run \in DOMAIN syncRuns
    /\ syncRuns[run].at = "clear"
    /\ gpsQueue' = [id \in getUnsynedGpsReadings |-> 0]
    /\ syncRuns' = [other \in DOMAIN syncRuns \ {run} |-> syncRuns[other]]
    /\ UNCHANGED <<simVars, readVars, serverVars, jobVars, stepVars, hostVars,
                   online, gpsBuffer, accepted>>

\* the app calls syncAll()
SyncAll(run) ==
    /\ online
    /\ StartRun(run, "app")
    /\ UNCHANGED <<simVars, readVars, serverVars, jobVars, stepVars, hostVars,
                   online, gpsBuffer, gpsQueue, accepted>>

InitSyncSpec ==
    /\ allResources = <<PlowTruck01>>
    /\ InitSim
    /\ InitRest

NextSync ==
    \/ QueueGpsReading
    \/ GoOffline
    \/ \E run \in SyncRunIds :
          \/ FlushGpsBuffer(run)
          \/ OnOnline(run)
          \/ SyncAll(run)
          \/ ReadUnsynced(run)
          \/ \E ok \in BOOLEAN : PostBatch(run, ok)
          \/ MarkSynced(run)
          \/ ClearSynced(run)

SpecSync == InitSyncSpec /\ [][NextSync]_vars

\* C30: every reading is in at most one batch the server has accepted, and a
\* reading that is in none yet is still in the buffer or in the store.
C30_UploadedOnceAndKept ==
    \A id \in DOMAIN accepted :
        /\ accepted[id] <= 1
        /\ accepted[id] = 0
              => \/ id \in DOMAIN gpsQueue
                 \/ \E k \in 1..Len(gpsBuffer) : gpsBuffer[k] = id

====
